---- MODULE Spec2Model ----
(***************************************************************************)
(* A model of the jules-pytk configuration objects: ConfigBase and its     *)
(* subclasses JulesNamelists, JulesInputAscii / JulesInputNetcdf and       *)
(* JulesConfig (src/src/jules_pytk/config/), acting on a small filesystem. *)
(*                                                                         *)
(* A namelists directory holds one file per namelist name; every namelist  *)
(* of the model holds one parameter, whose value is drawn from Values.     *)
(* A path is a sequence of segments; "/" as first segment makes it         *)
(* absolute, "~" as first segment is the user's home.                      *)
(***************************************************************************)
EXTENDS Integers, Sequences, FiniteSets, TLC

\* ------------------------------------------------------------------ bounds
\* Number of operations of one behaviour.
MaxOps == 2
\* Contents an ascii data file can hold are 1..MaxData.
MaxData == 2

\* ------------------------------------------------- the namelist schema
\* The fields of JulesNamelists, in field order (a prefix of the 29 names).
names == <<"ancillaries", "drive">>
Names == {names[i] : i \in 1..Len(names)}

\* --------------------------------------------------- parameter values
\* The values a parameter can hold.  "5" stands for the integer 5, every
\* other value is the string written.
Values == {"5", "inputs/a.dat", "g.nc", "/abs/d.dat", "/abs/e.nc",
           "../s.dat", "~/t.asc"}

isinstance_str(value) == value # "5"

\* pathlib.Path(value): the segments of the path.
Path(value) ==
  CASE value = "inputs/a.dat" -> <<"inputs", "a.dat">>
    [] value = "g.nc"         -> <<"g.nc">>
    [] value = "/abs/d.dat"   -> <<"/", "abs", "d.dat">>
    [] value = "/abs/e.nc"    -> <<"/", "abs", "e.nc">>
    [] value = "../s.dat"     -> <<"..", "s.dat">>
    [] value = "~/t.asc"      -> <<"~", "t.asc">>
    [] value = "namelists"    -> <<"namelists">>
    [] value = "."            -> <<>>
    [] value = "../shared"    -> <<"..", "shared">>
    [] OTHER                  -> <<value>>

\* Path.suffix / the end of the string.
suffix(value) ==
  CASE value \in {"inputs/a.dat", "/abs/d.dat", "../s.dat"} -> ".dat"
    [] value \in {"g.nc", "/abs/e.nc"} -> ".nc"
    [] value = "~/t.asc" -> ".asc"
    [] OTHER -> ""

\* ------------------------------------------------------------ pathlib
Home == <<"home", "u">>

is_absolute(p) == Len(p) > 0 /\ p[1] = "/"

expanduser(p) ==
  IF Len(p) > 0 /\ p[1] = "~" THEN <<"/">> \o Home \o Tail(p) ELSE p

\* Normalisation of the segments `rest` appended to the location `acc`
\* (a location is the sequence of directory names below "/").
RECURSIVE Normal(_, _)
Normal(rest, acc) ==
  IF rest = <<>> THEN acc
  ELSE IF Head(rest) = ".."
       THEN Normal(Tail(rest), IF acc = <<>> THEN acc
                               ELSE SubSeq(acc, 1, Len(acc) - 1))
       ELSE Normal(Tail(rest), Append(acc, Head(rest)))

\* Path.resolve() in the working directory cwd_: an absolute location.
resolve(p, cwd_) ==
  IF is_absolute(p) THEN Normal(Tail(p), <<>>) ELSE Normal(p, cwd_)

is_relative_to(loc, base) ==
  Len(base) <= Len(loc) /\ SubSeq(loc, 1, Len(base)) = base

\* --------------------------------------------------- the FileParameterIndex
valid_extensions == {".nc", ".cdf", ".asc", ".txt", ".dat"}

\* JulesNamelists.file_parameters: the parameters (here: one per namelist)
\* whose value is a string ending in a data-file extension.
file_parameters(vals) ==
  {n \in DOMAIN vals :
     isinstance_str(vals[n]) /\ suffix(vals[n]) \in valid_extensions}

\* JulesNamelists.required_files: the unique values of the file parameters.
required_files(vals) == {vals[n] : n \in file_parameters(vals)}

\* input_files(rel_only): the unique file paths, or only those that
\* Path.is_absolute() does not hold of.
input_files(vals, rel_only) ==
  IF rel_only
  THEN {v \in required_files(vals) : ~is_absolute(Path(v))}
  ELSE required_files(vals)

\* JulesNamelists.__post_init__: "ok" or the exception raised.
NamelistsPostInit(vals, cwd_) ==
  IF \E v \in required_files(vals) :
        ~(is_absolute(expanduser(Path(v)))
          \/ is_relative_to(resolve(Path(v), cwd_), cwd_))
  THEN "InvalidPath"
  ELSE "ok"

\* ------------------------------------------------------------- the state
Dirs == {"exp", "tmp"}
Subdirs == {"namelists", ".", "../shared"}
\* The relative file values: the keys a binding registry can have, and the
\* data files a directory can hold.
Keys == {v \in Values : isinstance_str(v) /\ ~is_absolute(Path(v))}
AbsKeys == {v \in Values : isinstance_str(v) /\ is_absolute(Path(v))}
NoFile == "NoFile"
NoData == 0
None == "None"
Slots == {1, 2}

VARIABLES
  fs,     \* the directories: [exists, junk, nml, data]
  absfs,  \* the files at absolute paths: their content, or NoData
  cwd,    \* the working directory of the process (a location)
  objs,   \* the JulesConfig objects the program holds, by slot
  last,   \* the last operation: its arguments, its outcome, what it wrote
  nops,   \* the number of operations done
  aux     \* the values a function is applied to, and its results

vars == <<fs, absfs, cwd, objs, last, nops, aux>>

EmptyDir(e) ==
  [exists |-> e, junk |-> FALSE,
   nml |-> [s \in Subdirs |-> [n \in Names |-> NoFile]],
   data |-> [k \in Keys |-> NoData]]

\* A directory that is absent or holds nothing.
IsEmpty(dir) ==
  /\ ~dir.junk
  /\ \A s \in Subdirs, n \in Names : dir.nml[s][n] = NoFile
  /\ \A k \in Keys : dir.data[k] = NoData

NoAux == <<>>

NoNamelists == [path |-> <<>>, vals |-> [n \in Names |-> "5"]]
NoObj == [alive |-> FALSE, path |-> None, namelists |-> NoNamelists,
          namelists_subdir |-> ".", inputs |-> <<>>]

NoInput == [data |-> NoData, path |-> <<>>]

\* What `last` records: the operation, the exception it raised or "ok",
\* the slot of the receiver and of the result, the arguments, the files
\* written, and the object returned by an operation on a part of a
\* configuration (ret: a JulesNamelists, inp: a JulesInputAscii or the
\* data a file handler returned), the file handler used, and whether the directory written to
\* was absent or empty before (fresh).
NoLast == [op |-> "init", err |-> "ok", obj |-> 0, res |-> 0, dir |-> None,
           sub |-> None, overwrite |-> FALSE, patch |-> <<>>,
           written |-> {}, key |-> None, ret |-> NoNamelists, inp |-> NoInput,
           fresh |-> FALSE, handler |-> None]

\* ConfigBase.is_detached
is_detached(o) == o.path = None
nml_is_detached(nml) == nml.path = <<>>

\* ------------------------------------------------------------------ read
ascii_extensions == {".asc", ".txt", ".dat"}
netcdf_extensions == {".nc", ".cdf"}

\* find_namelists(root): the directories under root holding every namelist
\* file; one candidate is returned, none or several raise.
\* A variant that takes every directory holding ancillaries.nml.
candidates_first(F, d) ==
  {s \in {"namelists", "."} : F[d].nml[s][names[1]] # NoFile}

candidates(F, d) ==
  {s \in {"namelists", "."} : \A n \in Names : F[d].nml[s][n] # NoFile}

find_namelists(F, d) ==
  IF candidates(F, d) = {} THEN [err |-> "FileNotFoundError", sub |-> None]
  ELSE IF Cardinality(candidates(F, d)) > 1
       THEN [err |-> "Exception", sub |-> None]
       ELSE [err |-> "ok", sub |-> CHOOSE s \in candidates(F, d) : TRUE]

\* A variant of read that does not record the path read from.
NamelistsRead_nopath(F, cwd_, d, s) ==
  IF ~F[d].exists \/ \E n \in Names : F[d].nml[s][n] = NoFile
  THEN [err |-> "FileNotFoundError", nml |-> NoNamelists]
  ELSE IF NamelistsPostInit(F[d].nml[s], cwd_) # "ok"
       THEN [err |-> NamelistsPostInit(F[d].nml[s], cwd_), nml |-> NoNamelists]
       ELSE [err |-> "ok", nml |-> [path |-> <<>>, vals |-> F[d].nml[s]]]

\* JulesNamelists.read(path / sub): ConfigBase.read, then _read and
\* __post_init__.
NamelistsRead(F, cwd_, d, s) ==
  IF ~F[d].exists \/ \E n \in Names : F[d].nml[s][n] = NoFile
  THEN [err |-> "FileNotFoundError", nml |-> NoNamelists]
  ELSE IF NamelistsPostInit(F[d].nml[s], cwd_) # "ok"
       THEN [err |-> NamelistsPostInit(F[d].nml[s], cwd_), nml |-> NoNamelists]
       ELSE [err |-> "ok", nml |-> [path |-> <<d, s>>, vals |-> F[d].nml[s]]]

\* JulesInput(file_ext).read(path / key).  JulesInputNetcdf leaves the
\* abstract methods of ConfigBase undefined, so that it cannot be created.
JulesInputRead(F, d, key) ==
  IF suffix(key) \in netcdf_extensions
  THEN [err |-> "TypeError", inp |-> NoInput]
  ELSE IF suffix(key) \notin ascii_extensions
  THEN [err |-> "ValueError", inp |-> NoInput]
  ELSE IF F[d].data[key] = NoData
  THEN [err |-> "FileNotFoundError", inp |-> NoInput]
  ELSE [err |-> "ok", inp |-> [data |-> F[d].data[key], path |-> <<d, key>>]]

\* PurePath.match(pattern) of the namelists' path against namelists_subdir.
match(nmlpath, sub) == nmlpath[2] = sub

\* JulesConfig.__post_init__: "ok" or the exception raised.
ConfigPostInit(nml, sub, keys, cwd_) ==
  IF is_absolute(expanduser(Path(sub))) THEN "InvalidPath"
  ELSE IF ~is_relative_to(resolve(Path(sub), cwd_), cwd_) THEN "InvalidPath"
  ELSE IF keys # input_files(nml.vals, TRUE) THEN "AssertionError"
  ELSE IF nml_is_detached(nml) THEN "ok"
  ELSE IF Path(sub) = <<>> THEN "ValueError"
  ELSE IF ~match(nml.path, sub) THEN "AssertionError"
  ELSE "ok"

\* JulesConfig.read(d, namelists_subdir=s): the outcomes [err, obj].  The
\* inputs are read in the iteration order of a set, so that any of the
\* inputs that fail can be the one that raises.
ReadOutcomes(F, cwd_, d, s) ==
  IF ~F[d].exists THEN {[err |-> "FileNotFoundError", obj |-> NoObj]}
  ELSE
  LET found == IF s = None THEN find_namelists(F, d)
               ELSE [err |-> "ok", sub |-> s]
  IN IF found.err # "ok" THEN {[err |-> found.err, obj |-> NoObj]}
  ELSE
  LET nr == NamelistsRead(F, cwd_, d, found.sub)
  IN IF nr.err # "ok" THEN {[err |-> nr.err, obj |-> NoObj]}
  ELSE
  LET keys == input_files(nr.nml.vals, TRUE)
      bad == {k \in keys : JulesInputRead(F, d, k).err # "ok"}
      inputs == [k \in keys |-> JulesInputRead(F, d, k).inp]
      post == ConfigPostInit(nr.nml, found.sub, keys, cwd_)
  IN IF bad # {}
     THEN {[err |-> JulesInputRead(F, d, k).err, obj |-> NoObj] : k \in bad}
     ELSE IF post # "ok" THEN {[err |-> post, obj |-> NoObj]}
     ELSE {[err |-> "ok",
            obj |-> [alive |-> TRUE, path |-> d, namelists |-> nr.nml,
                     namelists_subdir |-> found.sub, inputs |-> inputs]]}

\* c = JulesConfig.read(d, namelists_subdir=s), kept in slot t.
Read(t, d, s) ==
  /\ nops < MaxOps
  /\ \E r \in ReadOutcomes(fs, cwd, d, s) :
       /\ objs' = IF r.err = "ok" THEN [objs EXCEPT ![t] = r.obj] ELSE objs
       /\ last' = [NoLast EXCEPT !.op = "read", !.err = r.err, !.res = t,
                                 !.dir = d, !.sub = s]
  /\ nops' = nops + 1
  /\ UNCHANGED <<aux, fs, absfs, cwd>>


\* ----------------------------------------------------------------- write
Min(S) == CHOOSE x \in S : \A y \in S : x <= y

\* JulesNamelists._write(d / sub, overwrite): every namelist file is
\* written in field order with force=overwrite; f90nml refuses to replace
\* a file unless forced, and the files written before that stay.
NamelistsWrite(F, d, sub, vals, overwrite) ==
  LET blocked == {i \in 1..Len(names) : F[d].nml[sub][names[i]] # NoFile}
      stop == IF overwrite \/ blocked = {} THEN Len(names) + 1 ELSE Min(blocked)
      done == {names[i] : i \in 1..(stop - 1)}
  IN [err |-> IF stop <= Len(names) THEN "IOError" ELSE "ok",
      fs |-> [F EXCEPT ![d].exists = TRUE,
                       ![d].nml[sub] = [n \in Names |->
                                         IF n \in done THEN vals[n] ELSE @[n]]],
      written |-> {<<d, sub, n>> : n \in done}]

\* JulesInputAscii.write(d / key, overwrite), that is ConfigBase.write: it
\* refuses an existing file, and then calls _write(path, overwrite), which
\* JulesInputAscii defines with the path as its only parameter.
InputWrite(F, d, key, overwrite) ==
  IF F[d].data[key] # NoData /\ ~overwrite THEN "FileExistsError"
  ELSE "TypeError"

\* JulesConfig.check_inputs_match_required_files
check_inputs_match_required_files(o) ==
  DOMAIN o.inputs = input_files(o.namelists.vals, TRUE)

\* A variant that restores the directory when a step of the write fails.
ConfigWrite_rollback(F, cwd_, o, d, overwrite) ==
  LET nw == NamelistsWrite(F, d, o.namelists_subdir, o.namelists.vals, overwrite)
      back == NamelistsRead(nw.fs, cwd_, d, o.namelists_subdir).err
      keys == input_files(o.namelists.vals, TRUE)
      out(e) == [err |-> e, fs |-> IF e = "ok" THEN nw.fs ELSE F,
                 written |-> IF e = "ok" THEN nw.written ELSE {}]
  IN IF nw.err # "ok" THEN {out(nw.err)}
     ELSE IF back # "ok" THEN {out(back)}
     ELSE IF ~check_inputs_match_required_files(o) THEN {out("AssertionError")}
     ELSE IF keys = {} THEN {out("ok")}
     ELSE {out(InputWrite(nw.fs, d, k, overwrite)) : k \in keys}

\* JulesConfig._write(d, overwrite): the outcomes [err, fs, written].
\* namelists.write reads the namelists back (ConfigBase.write returns
\* read(path)); the inputs are written in the iteration order of a set.
ConfigWrite(F, cwd_, o, d, overwrite) ==
  LET nw == NamelistsWrite(F, d, o.namelists_subdir, o.namelists.vals, overwrite)
      back == NamelistsRead(nw.fs, cwd_, d, o.namelists_subdir).err
      keys == input_files(o.namelists.vals, TRUE)
      out(e) == [err |-> e, fs |-> nw.fs, written |-> nw.written]
  IN IF nw.err # "ok" THEN {out(nw.err)}
     ELSE IF back # "ok" THEN {out(back)}
     ELSE IF ~check_inputs_match_required_files(o) THEN {out("AssertionError")}
     ELSE IF keys = {} THEN {out("ok")}
     ELSE {out(InputWrite(nw.fs, d, k, overwrite)) : k \in keys}

\* ConfigBase.write(d, overwrite) of a JulesConfig: _write, then read(d).
WriteOutcomes(F, cwd_, o, d, overwrite) ==
  UNION {IF w.err # "ok"
         THEN {[err |-> w.err, fs |-> w.fs, written |-> w.written, obj |-> NoObj]}
         ELSE {[err |-> r.err, fs |-> w.fs, written |-> w.written, obj |-> r.obj]
               : r \in ReadOutcomes(w.fs, cwd_, d, None)}
         : w \in ConfigWrite(F, cwd_, o, d, overwrite)}

\* A variant in which a write that succeeds attaches the receiver itself
\* to the directory written (self._path = path).
Write_attaches(s, t, d, overwrite) ==
  /\ nops < MaxOps
  /\ objs[s].alive
  /\ \E w \in WriteOutcomes(fs, cwd, objs[s], d, overwrite) :
       /\ fs' = w.fs
       /\ objs' = IF w.err = "ok"
                  THEN [[objs EXCEPT ![s].path = d] EXCEPT ![t] = w.obj]
                  ELSE objs
       /\ last' = [NoLast EXCEPT !.op = "write", !.err = w.err, !.obj = s,
                                 !.res = t, !.dir = d, !.overwrite = overwrite,
                                 !.written = w.written,
                                 !.fresh = IsEmpty(fs[d])]
  /\ nops' = nops + 1
  /\ UNCHANGED <<aux, absfs, cwd>>

\* r = c.write(d, overwrite), c in slot s and r kept in slot t.
Write(s, t, d, overwrite) ==
  /\ nops < MaxOps
  /\ objs[s].alive
  /\ \E w \in WriteOutcomes(fs, cwd, objs[s], d, overwrite) :
       /\ fs' = w.fs
       /\ objs' = IF w.err = "ok" THEN [objs EXCEPT ![t] = w.obj] ELSE objs
       /\ last' = [NoLast EXCEPT !.op = "write", !.err = w.err, !.obj = s,
                                 !.res = t, !.dir = d, !.overwrite = overwrite,
                                 !.written = w.written,
                                 !.fresh = IsEmpty(fs[d])]
  /\ nops' = nops + 1
  /\ UNCHANGED <<aux, absfs, cwd>>

\* ---------------------------------------------------------------- detach
\* ConfigBase.detach of a JulesConfig: type(self)(**asdict(self)).  asdict
\* turns the namelists into a dict, which __post_init__ then asks for its
\* input_files.
ConfigDetach(o, cwd_) ==
  IF is_absolute(expanduser(Path(o.namelists_subdir))) THEN "InvalidPath"
  ELSE IF ~is_relative_to(resolve(Path(o.namelists_subdir), cwd_), cwd_)
  THEN "InvalidPath"
  ELSE "AttributeError"

\* r = c.detach(), c in slot s.
Detach(s, t) ==
  /\ nops < MaxOps
  /\ objs[s].alive
  /\ last' = [NoLast EXCEPT !.op = "detach", !.err = ConfigDetach(objs[s], cwd),
                            !.obj = s, !.res = t]
  /\ nops' = nops + 1
  /\ UNCHANGED <<aux, fs, absfs, cwd, objs>>

\* ---------------------------------------------------------------- update
\* The patches: one namelist and the new value of its parameter.
PatchValues == {"5", "~/t.asc", "../s.dat"}
Patches == {[n \in {m} |-> v] : m \in Names, v \in PatchValues}

\* f90nml.Namelist.patch, for each namelist of the patch.
patch_(vals, new_values) ==
  [n \in Names |-> IF n \in DOMAIN new_values THEN new_values[n] ELSE vals[n]]

\* c.update(): ConfigBase.update with no new values.  Detached, it returns;
\* attached, it is _write(self.path, overwrite=True).
Update(s) ==
  /\ nops < MaxOps
  /\ objs[s].alive
  /\ IF is_detached(objs[s])
     THEN /\ fs' = fs
          /\ last' = [NoLast EXCEPT !.op = "update", !.obj = s]
     ELSE \E w \in ConfigWrite(fs, cwd, objs[s], objs[s].path, TRUE) :
            /\ fs' = w.fs
            /\ last' = [NoLast EXCEPT !.op = "update", !.err = w.err,
                                      !.obj = s, !.dir = objs[s].path,
                                      !.overwrite = TRUE,
                                      !.written = w.written]
  /\ nops' = nops + 1
  /\ UNCHANGED <<aux, absfs, cwd, objs>>

\* c.update(new_values): JulesConfig._update raises.
UpdateWith(s, new_values) ==
  /\ nops < MaxOps
  /\ objs[s].alive
  /\ last' = [NoLast EXCEPT !.op = "update_with", !.err = "NotImplementedError",
                            !.obj = s, !.patch = new_values]
  /\ nops' = nops + 1
  /\ UNCHANGED <<aux, fs, absfs, cwd, objs>>

\* c.namelists.update(new_values): ConfigBase.update of the JulesNamelists.
\* _update patches in memory; attached, _write(self.path, overwrite=True)
\* then writes every namelist file.
NamelistsUpdate(s, new_values) ==
  /\ nops < MaxOps
  /\ objs[s].alive
  /\ LET nml == objs[s].namelists
         vals == patch_(nml.vals, new_values)
         nw == NamelistsWrite(fs, nml.path[1], nml.path[2], vals, TRUE)
     IN /\ objs' = [objs EXCEPT ![s].namelists.vals = vals]
        /\ IF nml_is_detached(nml)
           THEN /\ fs' = fs
                /\ last' = [NoLast EXCEPT !.op = "nml_update", !.obj = s,
                                          !.patch = new_values]
           ELSE /\ fs' = nw.fs
                /\ last' = [NoLast EXCEPT !.op = "nml_update", !.err = nw.err,
                                          !.obj = s, !.patch = new_values,
                                          !.dir = nml.path[1],
                                          !.sub = nml.path[2],
                                          !.overwrite = TRUE,
                                          !.written = nw.written]
  /\ nops' = nops + 1
  /\ UNCHANGED <<aux, absfs, cwd>>

\* c.namelists.update(): with no new values nothing is patched.
NamelistsUpdateNone(s) ==
  /\ nops < MaxOps
  /\ objs[s].alive
  /\ LET nml == objs[s].namelists
         nw == NamelistsWrite(fs, nml.path[1], nml.path[2], nml.vals, TRUE)
     IN IF nml_is_detached(nml)
        THEN /\ fs' = fs
             /\ last' = [NoLast EXCEPT !.op = "nml_update", !.obj = s]
        ELSE /\ fs' = nw.fs
             /\ last' = [NoLast EXCEPT !.op = "nml_update", !.err = nw.err,
                                       !.obj = s, !.dir = nml.path[1],
                                       !.sub = nml.path[2], !.overwrite = TRUE,
                                       !.written = nw.written]
  /\ nops' = nops + 1
  /\ UNCHANGED <<aux, absfs, cwd, objs>>

\* ------------------------------------------- the parts of a configuration
\* c.namelists.detach(): JulesNamelists(**asdict(self)), which runs
\* __post_init__ on the copied values.
NamelistsDetach(s) ==
  /\ nops < MaxOps
  /\ objs[s].alive
  /\ LET vals == objs[s].namelists.vals
         e == NamelistsPostInit(vals, cwd)
     IN last' = [NoLast EXCEPT !.op = "nml_detach", !.err = e, !.obj = s,
                   !.ret = IF e = "ok" THEN [path |-> <<>>, vals |-> vals]
                           ELSE NoNamelists]
  /\ nops' = nops + 1
  /\ UNCHANGED <<aux, fs, absfs, cwd, objs>>

\* c.inputs[k].detach(): JulesInputAscii(**asdict(self)).
InputDetach(s, k) ==
  /\ nops < MaxOps
  /\ objs[s].alive
  /\ k \in DOMAIN objs[s].inputs
  /\ last' = [NoLast EXCEPT !.op = "input_detach", !.obj = s, !.key = k,
                !.inp = [data |-> objs[s].inputs[k].data, path |-> <<>>]]
  /\ nops' = nops + 1
  /\ UNCHANGED <<aux, fs, absfs, cwd, objs>>

\* c.inputs[k].update(new_values): _update replaces the data; attached,
\* _write(self.path, overwrite=True) is then called with a keyword that
\* JulesInputAscii._write does not have.
InputUpdate(s, k, new_values) ==
  /\ nops < MaxOps
  /\ objs[s].alive
  /\ k \in DOMAIN objs[s].inputs
  /\ objs' = [objs EXCEPT ![s].inputs[k].data = new_values]
  /\ last' = [NoLast EXCEPT !.op = "input_update", !.obj = s, !.key = k,
                !.err = IF objs[s].inputs[k].path = <<>> THEN "ok"
                        ELSE "TypeError"]
  /\ nops' = nops + 1
  /\ UNCHANGED <<aux, fs, absfs, cwd>>

\* c.inputs[k].update(): detached, it returns; attached, _write raises.
InputUpdateNone(s, k) ==
  /\ nops < MaxOps
  /\ objs[s].alive
  /\ k \in DOMAIN objs[s].inputs
  /\ last' = [NoLast EXCEPT !.op = "input_update_none", !.obj = s, !.key = k,
                !.err = IF objs[s].inputs[k].path = <<>> THEN "ok"
                        ELSE "TypeError"]
  /\ nops' = nops + 1
  /\ UNCHANGED <<aux, fs, absfs, cwd, objs>>

\* ------------------------------------------------------------- construct
\* JulesInput(file_ext, data): the class is chosen by the extension.
JulesInput(file_ext) ==
  IF file_ext \in ascii_extensions THEN "ok"
  ELSE IF file_ext \in netcdf_extensions THEN "TypeError"
  ELSE "ValueError"

\* c = JulesConfig(namelists=JulesNamelists(**vals), namelists_subdir=sub,
\*                 inputs=FrozenDict({k: JulesInput(suffix(k), data)})),
\* kept in slot t: a detached configuration, whose bindings hold `data`
\* (NoData: JulesInput(ext) with the default data=None).
Construct(t, vals, sub, keys, data) ==
  /\ nops < MaxOps
  /\ ~objs[t].alive
  /\ LET e1 == NamelistsPostInit(vals, cwd)
         bad == {k \in keys : JulesInput(suffix(k)) # "ok"}
         nml == [path |-> <<>>, vals |-> vals]
         e3 == ConfigPostInit(nml, sub, keys, cwd)
         errs == IF e1 # "ok" THEN {e1}
                 ELSE IF bad # {} THEN {JulesInput(suffix(k)) : k \in bad}
                 ELSE {e3}
     IN \E e \in errs :
          /\ objs' = IF e = "ok"
                     THEN [objs EXCEPT ![t] =
                            [alive |-> TRUE, path |-> None, namelists |-> nml,
                             namelists_subdir |-> sub,
                             inputs |-> [k \in keys |->
                                          [data |-> data, path |-> <<>>]]]]
                     ELSE objs
          /\ last' = [NoLast EXCEPT !.op = "construct", !.err = e, !.res = t,
                                    !.sub = sub]
  /\ nops' = nops + 1
  /\ UNCHANGED <<aux, fs, absfs, cwd>>

\* ---------------------------------------------------------- file handlers
\* jules_tools: the handlers of data files, wrapped by handle_missing.  A
\* read whose test fails returns MISSING, a write whose test fails is
\* skipped.
MISSING == NoData
Handlers == {"ascii", "netcdf"}
HandlerPaths == {"inputs/a.dat", "g.nc", "/abs/d.dat", "/abs/e.nc"}

\* Path.exists and Path.is_file of the data file `value` names, seen from
\* directory d.
exists(F, A, d, value) ==
  IF is_absolute(Path(value)) THEN A[value] # NoData
  ELSE F[d].exists /\ F[d].data[value] # NoData

content(F, A, d, value) ==
  IF is_absolute(Path(value)) THEN A[value] ELSE F[d].data[value]

test_on_read(handler, F, A, d, value) ==
  IF handler = "ascii" THEN exists(F, A, d, value)
  ELSE exists(F, A, d, value) /\ ~is_absolute(Path(value))

\* A variant that lets a write to an absolute path through.
test_on_write_any(handler, value, data) == data # MISSING

test_on_write(handler, value, data) ==
  ~(data = MISSING \/ is_absolute(Path(value)))

\* data = handler.read(path)
HandlerRead(handler, d, value) ==
  /\ nops < MaxOps
  /\ last' = [NoLast EXCEPT
                !.op = "handler_read", !.handler = handler, !.dir = d,
                !.key = value,
                !.inp = [NoInput EXCEPT !.data =
                          IF test_on_read(handler, fs, absfs, d, value)
                          THEN content(fs, absfs, d, value) ELSE MISSING]]
  /\ nops' = nops + 1
  /\ UNCHANGED <<aux, fs, absfs, cwd, objs>>

\* AsciiFileHandler.write / NetcdfFileHandler.write: "ok" or the exception.
HandlerWriteErr(handler, F, A, d, value, overwrite_ok) ==
  IF ~is_absolute(Path(value)) /\ ~F[d].exists THEN "FileNotFoundError"
  ELSE IF handler = "netcdf" /\ ~overwrite_ok /\ exists(F, A, d, value)
  THEN "FileExistsError"
  ELSE "ok"

\* handler.write(path, data, overwrite_ok=overwrite_ok)
HandlerWrite(handler, d, value, data, overwrite_ok) ==
  /\ nops < MaxOps
  /\ LET does == test_on_write(handler, value, data)
         e == IF does
              THEN HandlerWriteErr(handler, fs, absfs, d, value, overwrite_ok)
              ELSE "ok"
         wr == does /\ e = "ok"
     IN /\ fs' = IF wr /\ ~is_absolute(Path(value))
                 THEN [fs EXCEPT ![d].data[value] = data] ELSE fs
        /\ absfs' = IF wr /\ is_absolute(Path(value))
                    THEN [absfs EXCEPT ![value] = data] ELSE absfs
        /\ last' = [NoLast EXCEPT
                      !.op = "handler_write", !.handler = handler, !.dir = d,
                      !.key = value, !.err = e, !.overwrite = overwrite_ok,
                      !.written = IF wr THEN {value} ELSE {},
                      !.inp = [NoInput EXCEPT !.data = data]]
  /\ nops' = nops + 1
  /\ UNCHANGED <<aux, cwd, objs>>

\* ------------------------------------------------------ loading a binding
\* jules_pytk/inputs.py, JulesInputAscii.read_(d / k) on the binding k of
\* the configuration in slot s: the file is read and the data setter
\* stores it, whatever the binding held.
InputRead_(s, k, d) ==
  /\ nops < MaxOps
  /\ objs[s].alive
  /\ k \in DOMAIN objs[s].inputs
  /\ LET found == fs[d].exists /\ fs[d].data[k] # NoData
     IN /\ objs' = IF found
                   THEN [objs EXCEPT ![s].inputs[k].data = fs[d].data[k]]
                   ELSE objs
        /\ last' = [NoLast EXCEPT !.op = "read_", !.obj = s, !.key = k,
                      !.dir = d,
                      !.err = IF found THEN "ok" ELSE "FileNotFoundError"]
  /\ nops' = nops + 1
  /\ UNCHANGED <<aux, fs, absfs, cwd>>

\* jules_pytk/config.py, JulesInput.load(d / k): the loader reads the file,
\* then the data setter refuses to replace data that is set.
InputLoad(s, k, d) ==
  /\ nops < MaxOps
  /\ objs[s].alive
  /\ k \in DOMAIN objs[s].inputs
  /\ LET found == fs[d].exists /\ fs[d].data[k] # NoData
         held == objs[s].inputs[k].data # NoData
     IN /\ objs' = IF found /\ ~held
                   THEN [objs EXCEPT ![s].inputs[k].data = fs[d].data[k]]
                   ELSE objs
        /\ last' = [NoLast EXCEPT !.op = "load", !.obj = s, !.key = k,
                      !.dir = d,
                      !.err = IF ~found THEN "FileNotFoundError"
                              ELSE IF held THEN "Exception" ELSE "ok"]
  /\ nops' = nops + 1
  /\ UNCHANGED <<aux, fs, absfs, cwd>>

\* ------------------------------------------------------------ ascii files
\* An ascii file is its header line (a sequence of characters, <<>> for
\* none) and rows x cols numbers, kept row by row in `flat`, in millionths.
\* An array is its shape and its elements in `flat`.
MaxRows == 2
MaxCols == 2
CellValues == {0, 1234567}
CommentLines == {<<"#", " ", "c">>, <<"!", "c">>}

\* numpy.loadtxt: arrays come back squeezed (ndmin=0).
loadtxt(file) ==
  [shape |-> SelectSeq(<<file.rows, file.cols>>, LAMBDA n : n # 1),
   flat |-> file.flat]

\* "%.5f" of a number in millionths.
fmt5(v) == ((v + 5) \div 10) * 10

\* numpy.savetxt(X, fmt="%.5f", header=header, comments="#") of a 2-d X.
savetxt(rows, cols, flat, header) ==
  [line |-> IF header = <<>> THEN <<>> ELSE <<"#">> \o header,
   rows |-> rows, cols |-> cols,
   flat |-> [i \in 1..Len(flat) |-> fmt5(flat[i])]]

\* JulesInputAscii._read: the comment is the first line without its marker.
AsciiRead_(file) ==
  [data |-> loadtxt(file),
   comment |-> IF file.line # <<>> /\ file.line[1] \in {"#", "!"}
               THEN Tail(file.line) ELSE <<>>]

\* JulesInputAscii._write: savetxt of self.data.reshape(1, -1).
AsciiWrite_(b) ==
  savetxt(1, Len(b.data.flat), b.data.flat, b.comment)

\* b = JulesInputAscii._read(file); the first binding read is remembered.
AsciiRead ==
  /\ aux # NoAux
  /\ aux.phase = "file"
  /\ aux' = [aux EXCEPT !.phase = "mem", !.binding = AsciiRead_(aux.file),
                        !.orig = IF aux.trips = 0 THEN AsciiRead_(aux.file)
                                 ELSE @]
  /\ UNCHANGED <<fs, absfs, cwd, objs, last, nops>>

\* b._write(file)
AsciiWrite ==
  /\ aux # NoAux
  /\ aux.phase = "mem"
  /\ aux.trips < MaxOps
  /\ aux' = [aux EXCEPT !.phase = "file", !.file = AsciiWrite_(aux.binding),
                        !.trips = @ + 1]
  /\ UNCHANGED <<fs, absfs, cwd, objs, last, nops>>

\* ------------------------------------------------- parameters by name
\* A configuration of make_paths_absolute and of the file-parameter index:
\* the parameters (group, name) in the order namelist.groups() yields
\* them, and their values.  "data" is a directory of the working
\* directory, "g.nc" names no file.
ParamKeys == <<<<"g1", "file">>, <<"g1", "frac_file">>, <<"g2", "nfiles">>,
               <<"g2", "profile_file">>, <<"g2", "name">>>>
ParamKeySet == {ParamKeys[i] : i \in 1..Len(ParamKeys)}
ParamValues == {"5", "inputs/a.dat", "data", "g.nc", "/abs/d.dat"}
ExistingPaths == {"inputs/a.dat", "data", "/abs/d.dat"}

\* "file" in param, "profile" in param
contains_file(param) == param \in {"file", "frac_file", "nfiles", "profile_file"}
contains_profile(param) == param = "profile_file"
known_irrelevant_keys == {"use_file", "nfiles", "file_period"}

\* str(Path(value).resolve()) in the working directory /wd
str_resolve(value) ==
  CASE value = "inputs/a.dat" -> "/wd/inputs/a.dat"
    [] value = "data"         -> "/wd/data"
    [] value = "g.nc"         -> "/wd/g.nc"
    [] OTHER                  -> value

\* A variant that does not look at skip_paths.
updated_noskip(config, skip_paths, key) ==
  /\ contains_file(key[2])
  /\ ~(contains_profile(key[2]) \/ key[2] \in known_irrelevant_keys)
  /\ isinstance_str(config[key])
  /\ config[key] \in ExistingPaths

\* _make_paths_absolute: the parameter reaches the end of the loop body.
updated(config, skip_paths, key) ==
  /\ contains_file(key[2])
  /\ ~(contains_profile(key[2]) \/ key[2] \in known_irrelevant_keys)
  /\ isinstance_str(config[key])
  /\ config[key] \in ExistingPaths
  /\ str_resolve(config[key]) \notin {str_resolve(q) : q \in skip_paths}

\* patches[group] = {param: ...}: of the updated parameters of a group the
\* last one is kept, and namelist.patch(patches) applies it.
patched(config, skip_paths, key) ==
  /\ updated(config, skip_paths, key)
  /\ \A i, j \in 1..Len(ParamKeys) :
       (ParamKeys[i] = key /\ i < j /\ ParamKeys[j][1] = key[1])
         => ~updated(config, skip_paths, ParamKeys[j])

\* list(S): the elements of a set, each once.
RECURSIVE SetToSeq(_)
SetToSeq(S) ==
  IF S = {} THEN <<>>
  ELSE LET x == CHOOSE y \in S : TRUE IN <<x>> \o SetToSeq(S \ {x})

Range(seq) == {seq[i] : i \in 1..Len(seq)}

\* file_parameters().values(): the values of the file parameters, in the
\* order of the parameters.
file_parameter_values(vals, keys) ==
  LET all == [i \in 1..Len(keys) |-> vals[keys[i]]]
  IN SelectSeq(all, LAMBDA v : isinstance_str(v)
                                /\ suffix(v) \in valid_extensions)

\* A variant that lists the values without making a set of them.
input_files_list_all(vals, keys, rel_only) ==
  SelectSeq(file_parameter_values(vals, keys),
            LAMBDA v : ~rel_only \/ ~is_absolute(Path(v)))

\* input_files(rel_only) as the list it returns: the set of the values,
\* listed, without the absolute ones if rel_only.
input_files_list(vals, keys, rel_only) ==
  SelectSeq(SetToSeq(Range(file_parameter_values(vals, keys))),
            LAMBDA v : ~rel_only \/ ~is_absolute(Path(v)))

\* The file-parameter index of a configuration and the binding registry
\* made of it: {str(p): JulesInput(p.suffix) for p in input_files(True)}.
FileIndex ==
  /\ aux # NoAux
  /\ aux.op = "none"
  /\ LET index == input_files_list(aux.config, ParamKeys, TRUE)
     IN aux' = [aux EXCEPT !.op = "index",
                           !.file_parameters = file_parameters(aux.config),
                           !.index = index,
                           !.inputs = [k \in Range(index) |-> NoInput]]
  /\ UNCHANGED <<fs, absfs, cwd, objs, last, nops>>

\* A variant that hands back the object itself.
deepcopy_alias(ref) == ref

\* copy.deepcopy(config): a new object, told from the one copied.
deepcopy(ref) == <<"copy", ref>>

\* r = make_paths_absolute(config, working_dir, skip_paths): the namelists
\* of config_dict = asdict(copy.deepcopy(config)) are patched in place and
\* returned; aux.input keeps the values config had when the call was made,
\* aux.config is the caller's object after the call.
MakePathsAbsolute ==
  /\ aux # NoAux
  /\ aux.op = "none"
  /\ LET bad == \E q \in aux.skip_paths : q \notin ExistingPaths
         config_dict == deepcopy("config")
         values == [k \in ParamKeySet |->
                     IF patched(aux.config, aux.skip_paths, k)
                     THEN str_resolve(aux.config[k])
                     ELSE aux.config[k]]
     IN aux' = [aux EXCEPT
                  !.op = "make_paths_absolute",
                  !.err = IF bad THEN "FileNotFoundError" ELSE "ok",
                  !.input = aux.config,
                  !.config = IF ~bad /\ config_dict = "config"
                             THEN values ELSE @,
                  !.result = IF bad THEN @ ELSE values]
  /\ UNCHANGED <<fs, absfs, cwd, objs, last, nops>>

\* ------------------------------------------------------------ the runners
\* What the simulation binary does: its exit status and what it writes to
\* standard output and to standard error.
Runners == {"run_jules", "JulesExeRunner", "JulesUdockerRunner"}
ReturnCodes == {0, 1, 2}
StdoutTexts == {"", "timestep 1"}
StderrTexts == {"", "fatal: bad namelist", "segmentation fault"}
LogTexts == StdoutTexts \cup StderrTexts \cup {"old log"}

SeeDetails == "An error was thrown by the subprocess. See details in stderr.log"

\* with open(stdout_file, "w") as outfile, open(stderr_file, "w") as errfile:
\* both log files of the run directory are created or truncated.
OpenLogs ==
  /\ aux # NoAux
  /\ aux.op = "run"
  /\ aux.pc = "start"
  /\ aux.runner \in {"run_jules", "JulesExeRunner"}
  /\ aux' = [aux EXCEPT !.pc = "opened",
                        !.stdout_log = "",
                        !.stderr_log = ""]
  /\ UNCHANGED <<fs, absfs, cwd, objs, last, nops>>

\* subprocess.run(args, stdout=outfile, stderr=errfile, text=True,
\* check=True): the binary writes through the descriptors of the two files.
SubprocessRun ==
  /\ aux # NoAux
  /\ aux.op = "run"
  /\ aux.pc = "opened"
  /\ \E code \in ReturnCodes, out \in StdoutTexts, errout \in StderrTexts :
       aux' = [aux EXCEPT !.pc = "exited",
                          !.returncode = code,
                          !.stdout = out,
                          !.stderr = errout,
                          !.stdout_log = out,
                          !.stderr_log = errout]
  /\ UNCHANGED <<fs, absfs, cwd, objs, last, nops>>

\* The handler of CalledProcessError, or the normal return. run_jules
\* reads stderr.log back and raises with its content; JulesExeRunner
\* raises with a fixed message.
Finish ==
  /\ aux # NoAux
  /\ aux.op = "run"
  /\ aux.pc = "exited"
  /\ aux' = [aux EXCEPT
               !.pc = "done",
               !.err = IF aux.returncode # 0 THEN "JulesRuntimeError" ELSE "ok",
               !.msg = IF aux.returncode = 0 THEN None
                       ELSE IF aux.runner = "run_jules" THEN aux.stderr_log
                       ELSE SeeDetails]
  /\ UNCHANGED <<fs, absfs, cwd, objs, last, nops>>

\* JulesUdockerRunner.__call__: subprocess.run([...]) without check and
\* without redirection; the exit status of the container is not looked at.
UdockerRun ==
  /\ aux # NoAux
  /\ aux.op = "run"
  /\ aux.pc = "start"
  /\ aux.runner = "JulesUdockerRunner"
  /\ \E code \in ReturnCodes, out \in StdoutTexts, errout \in StderrTexts :
       aux' = [aux EXCEPT !.pc = "done",
                          !.returncode = code,
                          !.stdout = out,
                          !.stderr = errout,
                          !.err = "ok",
                          !.msg = None]
  /\ UNCHANGED <<fs, absfs, cwd, objs, last, nops>>

\* ------------------------------------------------------------- FrozenDict
\* class FrozenDict(dict): a dict whose __setitem__ is overridden; every
\* other method is the one of dict, which does not go through __setitem__.
FrozenKeys == {"a.dat", "b.nc", "c.txt"}
FrozenValues == {"x", "y"}

Item(d, key, value) ==
  [k \in DOMAIN d \cup {key} |-> IF k = key THEN value ELSE d[k]]

Without(d, key) == [k \in DOMAIN d \ {key} |-> d[k]]

FrozenStep(opname, key, value, d, err) ==
  /\ aux' = [aux EXCEPT !.method = opname, !.key = key, !.value = value,
                        !.prev = aux.d, !.d = d, !.err = err,
                        !.steps = aux.steps + 1]
  /\ UNCHANGED <<fs, absfs, cwd, objs, last, nops>>

FrozenEnabled == aux # NoAux /\ aux.op = "frozen" /\ aux.steps < MaxOps

\* d[key] = value
FrozenDict_setitem ==
  /\ FrozenEnabled
  /\ \E key \in FrozenKeys, value \in FrozenValues :
       IF key \notin DOMAIN aux.d
       THEN FrozenStep("__setitem__", key, value, aux.d, "TypeError")
       ELSE FrozenStep("__setitem__", key, value, Item(aux.d, key, value), "ok")

\* d.update({key: value}): dict.update, not overridden.
FrozenDict_update ==
  /\ FrozenEnabled
  /\ \E key \in FrozenKeys, value \in FrozenValues :
       FrozenStep("update", key, value, Item(aux.d, key, value), "ok")

\* d.setdefault(key, value): dict.setdefault, not overridden.
FrozenDict_setdefault ==
  /\ FrozenEnabled
  /\ \E key \in FrozenKeys, value \in FrozenValues :
       FrozenStep("setdefault", key, value,
                  IF key \in DOMAIN aux.d THEN aux.d
                  ELSE Item(aux.d, key, value), "ok")

\* del d[key]: dict.__delitem__, not overridden.
FrozenDict_delitem ==
  /\ FrozenEnabled
  /\ \E key \in FrozenKeys :
       IF key \in DOMAIN aux.d
       THEN FrozenStep("__delitem__", key, None, Without(aux.d, key), "ok")
       ELSE FrozenStep("__delitem__", key, None, aux.d, "KeyError")

\* d.clear(): dict.clear, not overridden.
FrozenDict_clear ==
  /\ FrozenEnabled
  /\ FrozenStep("clear", None, None, [k \in {} |-> None], "ok")

\* ------------------------------------------------------ the experiment
\* JulesExperiment.load_input_data(pattern, exclude_abspath) on an
\* experiment in the directory /exp.
experiment_dir == <<"/", "exp">>
ExperimentValues == {"5", "inputs/a.dat", "g.nc", "/abs/d.dat", "/abs/e.nc"}
Patterns == {"*", "*.nc"}

\* a / b of pathlib: an absolute b replaces a.
truediv(a, b) == IF is_absolute(b) THEN b ELSE a \o b

\* fnmatch.filter(file_paths, pattern)
fnmatch_filter(file_paths, pattern) ==
  {f \in file_paths : pattern = "*" \/ suffix(f) = ".nc"}

\* The path handed to read_ for file_path: the two branches of the loop.
load_path(file_path, exclude_abspath) ==
  IF is_absolute(Path(file_path)) /\ ~exclude_abspath
  THEN Path(file_path)
  ELSE truediv(experiment_dir, Path(file_path))

\* file_paths = fnmatch.filter([str(p) for p in required_files], pattern)
LoadInputData ==
  /\ aux # NoAux
  /\ aux.op = "experiment"
  /\ aux.pc = "start"
  /\ aux' = [aux EXCEPT
               !.pc = "loop",
               !.file_paths = fnmatch_filter(required_files(aux.vals),
                                             aux.pattern)]
  /\ UNCHANGED <<fs, absfs, cwd, objs, last, nops>>

\* One turn of the loop: self.config.data[file_path].read_(...). The
\* list comes from a set, so the turns come in any order; an exception
\* ends the call.
LoadInputDataRead ==
  /\ aux # NoAux
  /\ aux.op = "experiment"
  /\ aux.pc = "loop"
  /\ aux.file_paths # {}
  /\ \E file_path \in aux.file_paths :
       LET path == load_path(file_path, aux.exclude_abspath)
       IN IF file_path \notin DOMAIN aux.data
          THEN aux' = [aux EXCEPT !.pc = "done", !.err = "KeyError"]
          ELSE IF path \notin aux.disk
          THEN aux' = [aux EXCEPT !.pc = "done",
                                  !.err = "FileNotFoundError"]
          ELSE aux' = [aux EXCEPT !.file_paths = @ \ {file_path},
                                  !.data[file_path] = path]
  /\ UNCHANGED <<fs, absfs, cwd, objs, last, nops>>

\* The loop is over: load_input_data returns.
LoadInputDataReturn ==
  /\ aux # NoAux
  /\ aux.op = "experiment"
  /\ aux.pc = "loop"
  /\ aux.file_paths = {}
  /\ aux' = [aux EXCEPT !.pc = "done"]
  /\ UNCHANGED <<fs, absfs, cwd, objs, last, nops>>

\* --------------------------------------------------- detached copies
\* d = c.detach() of one attached object c read from a file, with the
\* data of c and of d as cells of a heap, so that two objects can hold
\* the same array (or the same f90nml.Namelist).
DetachKinds == {"JulesInputAscii", "JulesNamelists",
                "AsciiFile", "NetcdfFile", "NamelistFile"}
Refs == {"r1", "r2", "r3"}

\* The cell of the copy's data. ConfigBase.detach builds the copy from
\* asdict(self), which deep-copies the field values; the _detach methods
\* of old_fs.py hand self.data to the constructor, which keeps it
\* (numpy.asarray of an array is that array).
detach_data(kind, ref) ==
  IF kind \in {"JulesInputAscii", "JulesNamelists"} THEN "r2" ELSE ref

\* d = c.detach()
DetachCopy ==
  /\ aux # NoAux
  /\ aux.op = "detach"
  /\ aux.d = None
  /\ LET ref == detach_data(aux.kind, aux.c)
     IN aux' = [aux EXCEPT !.d = ref,
                           !.heap[ref] = aux.heap[aux.c],
                           !.steps = @ + 1]
  /\ UNCHANGED <<fs, absfs, cwd, objs, last, nops>>

\* d.data[...] = v, or d.data.patch(...): the object d holds is changed
\* in place.
DetachedSetItem ==
  /\ aux # NoAux
  /\ aux.op = "detach"
  /\ aux.d # None
  /\ aux.steps < MaxOps + 1
  /\ \E v \in 1..MaxData :
       aux' = [aux EXCEPT !.heap[aux.d] = v, !.steps = @ + 1]
  /\ UNCHANGED <<fs, absfs, cwd, objs, last, nops>>

\* d.update(v) (for the classes of old_fs.py: d.data = v). d is
\* detached, so nothing is written. JulesNamelists._update patches the
\* namelists it holds; the others bind d.data to a new array.
DetachedUpdate ==
  /\ aux # NoAux
  /\ aux.op = "detach"
  /\ aux.d # None
  /\ aux.steps < MaxOps + 1
  /\ \E v \in 1..MaxData :
       IF aux.kind = "JulesNamelists"
       THEN aux' = [aux EXCEPT !.heap[aux.d] = v, !.steps = @ + 1]
       ELSE aux' = [aux EXCEPT !.d = "r3", !.heap["r3"] = v, !.steps = @ + 1]
  /\ UNCHANGED <<fs, absfs, cwd, objs, last, nops>>

\* c.update(): _write(self.path, ...) of the attached object. For a
\* JulesInputAscii the call raises TypeError before anything is written.
AttachedUpdate ==
  /\ aux # NoAux
  /\ aux.op = "detach"
  /\ aux.d # None
  /\ aux.steps < MaxOps + 1
  /\ IF aux.kind = "JulesInputAscii"
     THEN aux' = [aux EXCEPT !.err = "TypeError", !.steps = @ + 1]
     ELSE aux' = [aux EXCEPT !.file = aux.heap[aux.c], !.err = "ok",
                             !.steps = @ + 1]
  /\ UNCHANGED <<fs, absfs, cwd, objs, last, nops>>

\* ------------------------------------------------------------ switch_dir
\* The context manager switch_dir on a small tree of directories. A
\* location is the sequence of names below "/"; a path is given as
\* pathlib keeps it, absolute or relative to the working directory.
DirLocs == {<<"w">>, <<"w", "a">>, <<"w", "a", "a">>, <<"w", "b">>}
FileLocs == {<<"w", "f.txt">>}
SwitchPaths == {<<"/", "w", "a">>, <<"a">>, <<"/", "w", "b">>,
                <<"/", "w", "f.txt">>, <<"gone">>}
\* The number of switch_dir objects and of nested blocks.
MaxBlocks == 2

SwitchEnabled == aux # NoAux /\ aux.op = "switch" /\ aux.steps < 3 * MaxOps

\* its = switch_dir(path): __init__ keeps the path and refuses one that
\* is not an existing directory.
SwitchDirInit ==
  /\ SwitchEnabled
  /\ Len(aux.insts) < MaxBlocks
  /\ \E path \in SwitchPaths :
       LET loc == resolve(path, aux.wd)
       IN IF loc \in DirLocs
          THEN aux' = [aux EXCEPT
                        !.insts = Append(@, [new |-> path, old |-> None]),
                        !.err = "ok", !.before = aux.wd,
                        !.steps = @ + 1]
          ELSE aux' = [aux EXCEPT
                        !.err = IF loc \in FileLocs THEN "NotADirectoryError"
                                ELSE "FileNotFoundError",
                        !.before = aux.wd,
                        !.steps = @ + 1]
  /\ UNCHANGED <<fs, absfs, cwd, objs, last, nops>>

\* with its: __enter__ keeps the working directory in self.old and
\* changes to self.new; when os.chdir raises, the block is not entered.
SwitchDirEnter ==
  /\ SwitchEnabled
  /\ Len(aux.stack) < MaxBlocks
  /\ \E i \in 1..Len(aux.insts) :
       LET loc == resolve(aux.insts[i].new, aux.wd)
       IN IF loc \in DirLocs
          THEN aux' = [aux EXCEPT
                        !.insts[i].old = aux.wd,
                        !.wd = loc,
                        !.stack = Append(@, [inst |-> i, entry |-> aux.wd]),
                        !.err = "ok", !.before = aux.wd,
                        !.steps = @ + 1]
          ELSE aux' = [aux EXCEPT
                        !.insts[i].old = aux.wd,
                        !.err = "FileNotFoundError", !.before = aux.wd,
                        !.steps = @ + 1]
  /\ UNCHANGED <<fs, absfs, cwd, objs, last, nops>>

\* The end of the innermost block, by its last statement or by an
\* exception of the body: __exit__ changes to self.old and returns None,
\* so an exception goes on to the caller.
SwitchDirExit ==
  /\ SwitchEnabled
  /\ aux.stack # <<>>
  /\ \E raised \in BOOLEAN :
       LET top == aux.stack[Len(aux.stack)]
       IN aux' = [aux EXCEPT
                    !.wd = aux.insts[top.inst].old,
                    !.stack = SubSeq(@, 1, Len(@) - 1),
                    !.exited = [entry |-> top.entry,
                                wd |-> aux.insts[top.inst].old,
                                inst |-> top.inst,
                                nested |-> Len(aux.stack) > 1],
                    !.err = IF raised THEN "Exception" ELSE "ok",
                    !.before = aux.wd,
                    !.steps = @ + 1]
  /\ UNCHANGED <<fs, absfs, cwd, objs, last, nops>>

\* -------------------------------------------- JulesExperimentCollection
\* A collection and two loops over it. iter(collection) is the collection
\* itself, so the loops share collection._index.
CollectionPaths == {<<"e1">>, <<"e1", "e2">>, <<"e2", "e1">>}
Loops == {"loop1", "loop2"}

CollectionEnabled ==
  aux # NoAux /\ aux.op = "collection" /\ aux.steps < 3 * MaxOps

\* it = iter(collection): __iter__ sets _index to 0 and returns self.
CollectionIter ==
  /\ CollectionEnabled
  /\ \E l \in Loops :
       /\ ~aux.loops[l].started
       /\ aux' = [aux EXCEPT !.index = 0,
                             !.loops[l].started = TRUE,
                             !.steps = @ + 1]
  /\ UNCHANGED <<fs, absfs, cwd, objs, last, nops>>

\* next(it): __next__ returns the experiment of the path at _index and
\* moves _index on, or raises StopIteration.
CollectionNext ==
  /\ CollectionEnabled
  /\ \E l \in Loops :
       /\ aux.loops[l].started
       /\ ~aux.loops[l].stopped
       /\ IF aux.index < Len(aux.paths)
          THEN aux' = [aux EXCEPT
                        !.index = @ + 1,
                        !.loops[l].yielded =
                           Append(@, aux.paths[aux.index + 1]),
                        !.steps = @ + 1]
          ELSE aux' = [aux EXCEPT !.loops[l].stopped = TRUE,
                                  !.steps = @ + 1]
  /\ UNCHANGED <<fs, absfs, cwd, objs, last, nops>>

\* ------------------------------------------------------------------ Init
\* The values of the namelists the experiment directory holds.
InitVals == {[n \in Names |-> IF n = "ancillaries" THEN a ELSE b] :
               a \in Values, b \in {"5", "inputs/a.dat"}}

\* The experiment directory holds the namelists in its "namelists"
\* directory, in itself or in both (or, next to "namelists", only the first
\* namelist file in itself), and the data files named relatively;
\* the other directory is absent, empty or holds an unrelated file.
Init ==
  /\ cwd \in {<<>>, <<"work">>}
  /\ \E v0 \in InitVals,
        where \in {<<{"namelists"}, {}>>, <<{"."}, {}>>,
                   <<{"namelists", "."}, {}>>, <<{"namelists"}, {"."}>>},
        t \in {"absent", "empty", "junk"} :
       fs = [d \in Dirs |->
              IF d = "exp"
              THEN [exists |-> TRUE, junk |-> FALSE,
                    nml |-> [s \in Subdirs |->
                              IF s \in where[1] THEN v0
                              ELSE IF s \in where[2]
                              THEN [n \in Names |->
                                     IF n = names[1] THEN v0[n] ELSE NoFile]
                              ELSE [n \in Names |-> NoFile]],
                    data |-> [k \in Keys |-> 1]]
              ELSE [EmptyDir(t # "absent") EXCEPT !.junk = (t = "junk")]]
  /\ absfs = [k \in AbsKeys |-> 1]
  /\ objs = [s \in Slots |-> NoObj]
  /\ last = NoLast
  /\ nops = 0
  /\ aux = NoAux

Next ==
  \/ \E d \in Dirs, s \in Subdirs \cup {None} : Read(1, d, s)
  \/ \E s \in Slots, d \in Dirs, ow \in BOOLEAN : Write(s, 2, d, ow)
  \/ \E s \in Slots : Detach(s, 2)
  \/ \E s \in Slots : Update(s)
  \/ \E s \in Slots, p \in Patches : UpdateWith(s, p)
  \/ \E s \in Slots, p \in Patches : NamelistsUpdate(s, p)
  \/ \E s \in Slots : NamelistsUpdateNone(s)
  \/ \E s \in Slots : NamelistsDetach(s)
  \/ \E s \in Slots, k \in Keys : InputDetach(s, k)
  \/ \E s \in Slots, k \in Keys, v \in 1..MaxData : InputUpdate(s, k, v)
  \/ \E s \in Slots, k \in Keys : InputUpdateNone(s, k)

Spec == Init /\ [][Next]_vars

\* Configurations constructed in memory: one valid experiment directory,
\* and a program that first constructs a configuration.
InitNew ==
  /\ cwd \in {<<>>, <<"work">>}
  /\ \E t \in {"absent", "empty", "junk"} :
       fs = [d \in Dirs |->
              IF d = "exp"
              THEN [exists |-> TRUE, junk |-> FALSE,
                    nml |-> [s \in Subdirs |->
                              IF s = "namelists"
                              THEN [n \in Names |-> "inputs/a.dat"]
                              ELSE [n \in Names |-> NoFile]],
                    data |-> [k \in Keys |-> 1]]
              ELSE [EmptyDir(t # "absent") EXCEPT !.junk = (t = "junk")]]
  /\ absfs = [k \in AbsKeys |-> 1]
  /\ objs = [s \in Slots |-> NoObj]
  /\ last = NoLast
  /\ nops = 0
  /\ aux = NoAux

NextNew ==
  \/ \E vals \in InitVals, sub \in Subdirs, data \in 0..MaxData :
       \E keys \in {input_files(vals, TRUE), {}} :
         Construct(1, vals, sub, keys, data)
  \/ Next

SpecNew == InitNew /\ [][NextNew]_vars

\* The file handlers next to the configurations: the experiment directory
\* names a file by an absolute path, which exists or not.
InitTools ==
  /\ cwd = <<"work">>
  /\ \E v0 \in {[n \in Names |-> IF n = "ancillaries" THEN "/abs/d.dat" ELSE "5"],
                [n \in Names |-> IF n = "ancillaries" THEN "/abs/e.nc"
                                 ELSE "inputs/a.dat"]},
        t \in BOOLEAN :
       fs = [d \in Dirs |->
              IF d = "exp"
              THEN [exists |-> TRUE, junk |-> FALSE,
                    nml |-> [s \in Subdirs |->
                              IF s = "namelists" THEN v0
                              ELSE [n \in Names |-> NoFile]],
                    data |-> [k \in Keys |-> 1]]
              ELSE EmptyDir(t)]
  /\ absfs \in [AbsKeys -> {NoData, 1}]
  /\ objs = [s \in Slots |-> NoObj]
  /\ last = NoLast
  /\ nops = 0
  /\ aux = NoAux

NextTools ==
  \/ \E h \in Handlers, d \in Dirs, v \in HandlerPaths : HandlerRead(h, d, v)
  \/ \E h \in Handlers, d \in Dirs, v \in HandlerPaths, data \in {MISSING, MaxData},
        ow \in BOOLEAN : HandlerWrite(h, d, v, data, ow)
  \/ Next

SpecTools == InitTools /\ [][NextTools]_vars

\* Bindings constructed with or without data, and then loaded from a file.
NextLoad ==
  \/ \E vals \in InitVals, data \in 0..MaxData :
       Construct(1, vals, ".", input_files(vals, TRUE), data)
  \/ \E s \in Slots, k \in Keys, d \in Dirs : InputRead_(s, k, d)
  \/ \E s \in Slots, k \in Keys, d \in Dirs : InputLoad(s, k, d)

SpecLoad == InitNew /\ [][NextLoad]_vars

\* What the specifications of single functions leave alone.
InitIdle ==
  /\ cwd = <<>>
  /\ fs = [d \in Dirs |-> EmptyDir(FALSE)]
  /\ absfs = [k \in AbsKeys |-> NoData]
  /\ objs = [s \in Slots |-> NoObj]
  /\ last = NoLast
  /\ nops = 0

\* An ascii file with one comment line, read, written and read again.
InitAscii ==
  /\ InitIdle
  /\ \E line \in CommentLines, rows \in 1..MaxRows, cols \in 1..MaxCols :
       \E flat \in [1..(rows * cols) -> CellValues] :
         aux = [phase |-> "file", trips |-> 0,
                file |-> [line |-> line, rows |-> rows, cols |-> cols,
                          flat |-> flat],
                binding |-> [data |-> [shape |-> <<>>, flat |-> <<>>],
                             comment |-> <<>>],
                orig |-> [data |-> [shape |-> <<>>, flat |-> <<>>],
                          comment |-> <<>>]]

NextAscii == AsciiRead \/ AsciiWrite

SpecAscii == InitAscii /\ [][NextAscii]_vars

\* Configurations with named parameters, to which one function is applied.
InitParams ==
  /\ InitIdle
  /\ \E config \in [ParamKeySet -> ParamValues],
        skip_paths \in {{}, {"inputs/a.dat"}, {"g.nc"}} :
       /\ \A k \in ParamKeySet :
            k[1] = "g2" /\ k[2] # "name" => config[k] \in {"5", "inputs/a.dat"}
       /\ aux = [op |-> "none", err |-> "ok", config |-> config,
                 skip_paths |-> skip_paths, input |-> config, result |-> config,
                 file_parameters |-> {}, index |-> <<>>, inputs |-> <<>>]

NextParams == MakePathsAbsolute \/ FileIndex

SpecParams == InitParams /\ [][NextParams]_vars

\* A run directory whose log files may be left from an earlier run.
InitRun ==
  /\ InitIdle
  /\ \E r \in Runners, l1 \in LogTexts \cup {None}, l2 \in LogTexts \cup {None} :
       aux = [op |-> "run", runner |-> r, pc |-> "start",
              returncode |-> 0, stdout |-> "", stderr |-> "",
              stdout_log |-> l1, stderr_log |-> l2,
              err |-> "ok", msg |-> None]

NextRun == OpenLogs \/ SubprocessRun \/ Finish \/ UdockerRun

SpecRun == InitRun /\ [][NextRun]_vars

\* FrozenDict(mapping): the keys of the mapping given at construction.
InitFrozen ==
  /\ InitIdle
  /\ \E keys \in SUBSET FrozenKeys :
       \E d \in [keys -> FrozenValues] :
         aux = [op |-> "frozen", keys0 |-> keys, d |-> d, prev |-> d,
                method |-> None, key |-> None, value |-> None,
                err |-> "ok", steps |-> 0]

NextFrozen ==
  \/ FrozenDict_setitem
  \/ FrozenDict_update
  \/ FrozenDict_setdefault
  \/ FrozenDict_delitem
  \/ FrozenDict_clear

SpecFrozen == InitFrozen /\ [][NextFrozen]_vars

\* An experiment whose namelists hold vals; config.data has one unloaded
\* binding for each required file (or, with_abs FALSE, for the relative
\* ones only); some of the files named are missing on disk.
InitExperiment ==
  /\ InitIdle
  /\ \E vals \in [Names -> ExperimentValues], pattern \in Patterns,
        exclude_abspath \in BOOLEAN, with_abs \in BOOLEAN,
        missing \in SUBSET {"inputs/a.dat", "/abs/d.dat"} :
       aux = [op |-> "experiment", pc |-> "start", err |-> "ok",
              vals |-> vals, pattern |-> pattern,
              exclude_abspath |-> exclude_abspath,
              disk |-> {truediv(experiment_dir, Path(v)) :
                          v \in (ExperimentValues \ {"5"}) \ missing},
              data |-> [k \in {v \in required_files(vals) :
                                 with_abs \/ ~is_absolute(Path(v))}
                          |-> None],
              file_paths |-> {}]

NextExperiment == LoadInputData \/ LoadInputDataRead \/ LoadInputDataReturn

SpecExperiment == InitExperiment /\ [][NextExperiment]_vars

\* c = <class>.read(file): c holds what the file holds.
InitDetach ==
  /\ InitIdle
  /\ \E kind \in DetachKinds, v \in 1..MaxData :
       aux = [op |-> "detach", kind |-> kind,
              heap |-> [r \in Refs |-> IF r = "r1" THEN v ELSE NoData],
              c |-> "r1", d |-> None, file |-> v, orig |-> v,
              err |-> "ok", steps |-> 0]

NextDetach ==
  DetachCopy \/ DetachedSetItem \/ DetachedUpdate \/ AttachedUpdate

SpecDetach == InitDetach /\ [][NextDetach]_vars

\* A process in one of the directories, with no switch_dir object yet.
InitSwitch ==
  /\ InitIdle
  /\ \E wd \in {<<"w">>, <<"w", "b">>} :
       aux = [op |-> "switch", wd |-> wd, insts |-> <<>>, stack |-> <<>>,
              exited |-> [entry |-> wd, wd |-> wd, inst |-> 0,
                          nested |-> FALSE],
              err |-> "ok", before |-> wd, steps |-> 0]

NextSwitch == SwitchDirInit \/ SwitchDirEnter \/ SwitchDirExit

SpecSwitch == InitSwitch /\ [][NextSwitch]_vars

\* collection = JulesExperimentCollection(*paths)
InitCollection ==
  /\ InitIdle
  /\ \E paths \in CollectionPaths :
       aux = [op |-> "collection", paths |-> paths, index |-> 0,
              loops |-> [l \in Loops |->
                          [started |-> FALSE, stopped |-> FALSE,
                           yielded |-> <<>>]],
              steps |-> 0]

NextCollection == CollectionIter \/ CollectionNext

SpecCollection == InitCollection /\ [][NextCollection]_vars

\* ================================================================ claims
\* JulesConfig.__eq__ : the namelists, the subdirectory and the bindings
\* (JulesInputAscii.__eq__ compares the data) are equal; the paths the
\* objects are attached to are not compared.
InputsEq(a, b) ==
  /\ DOMAIN a = DOMAIN b
  /\ \A k \in DOMAIN a : a[k].data = b[k].data

ConfigEq(a, b) ==
  /\ a.namelists.vals = b.namelists.vals
  /\ a.namelists_subdir = b.namelists_subdir
  /\ InputsEq(a.inputs, b.inputs)

\* The configurations compared: their bindings hold values and a comment.
EqConfigs ==
  {[alive |-> TRUE, path |-> p,
    namelists |-> [path |-> IF p = None THEN <<>> ELSE <<p, sub>>,
                   vals |-> [n \in Names |-> IF n = names[1] THEN "inputs/a.dat"
                                             ELSE v]],
    namelists_subdir |-> sub,
    inputs |-> [k \in {"inputs/a.dat"} |->
                 [data |-> data, comment |-> c,
                  path |-> IF p = None THEN <<>> ELSE <<p, k>>]]] :
     p \in {None, "exp"}, sub \in {"namelists", "."}, v \in {"5", "/abs/e.nc"},
     data \in 1..MaxData, c \in {"c", "d"}}

InitEq ==
  /\ InitIdle
  /\ \E x \in EqConfigs, y \in EqConfigs :
       aux = [x |-> x, y |-> y, done |-> FALSE, eq |-> FALSE]

\* r = (x == y)
Eq ==
  /\ aux # NoAux
  /\ ~aux.done
  /\ aux' = [aux EXCEPT !.done = TRUE, !.eq = ConfigEq(aux.x, aux.y)]
  /\ UNCHANGED <<fs, absfs, cwd, objs, last, nops>>

SpecEq == InitEq /\ [][Eq]_vars

\* C1: in every configuration the program holds, after any sequence of
\* read, write, detach and update (patches that change a file-valued
\* parameter included), the keys of `inputs` are exactly the relative
\* file-valued paths of its namelists.
C1_KeysAreRelativeInputFiles ==
  \A s \in Slots :
    objs[s].alive =>
      DOMAIN objs[s].inputs = input_files(objs[s].namelists.vals, TRUE)

\* C2: a configuration read from a valid directory and written to an empty
\* directory comes back, by the read that write ends with, equal to itself.
C2_RoundTrip ==
  [][(/\ last.op = "read" /\ last.err = "ok"
      /\ last'.op = "write" /\ last'.obj = last.res /\ last'.fresh)
     => (/\ last'.err = "ok"
         /\ ConfigEq(objs'[last'.res], objs[last.res]))]_vars

\* C3: a configuration is portable iff every relative binding holds data,
\* and a write of a configuration that is not portable fails with
\* NotLoaded.
C3_WriteUnloadedIsNotLoaded ==
  LET o == objs[last.obj]
      is_portable == \A k \in DOMAIN o.inputs : o.inputs[k].data # NoData
  IN (last.op = "write" /\ last.fresh /\ ~is_portable)
       => last.err = "NotLoaded"

\* What holds of absolute paths in every step: no file at an absolute path
\* is written, no configuration has a binding keyed by one, a handler asked
\* to write to one writes nothing, and a write of a configuration leaves
\* the receiver's parameter values, and writes them as they are.
AbsoluteLeftAlone ==
  /\ absfs' = absfs
  /\ \A s \in Slots :
       objs'[s].alive => DOMAIN objs'[s].inputs \cap AbsKeys = {}
  /\ (last'.op = "handler_write" /\ last'.key \in AbsKeys)
       => last'.written = {}
  /\ last'.op = "write"
       => /\ objs'[last'.obj].namelists.vals = objs[last'.obj].namelists.vals
          /\ \A w \in last'.written :
               fs'[w[1]].nml[w[2]][w[3]] = objs[last'.obj].namelists.vals[w[3]]

\* C4 (as stated): an absolute path is never bound, never loaded by a read,
\* for ascii and dataset files alike, and never written.
C4_AbsoluteNeverLoaded ==
  [][/\ AbsoluteLeftAlone
     /\ (last'.op = "handler_read" /\ last'.key \in AbsKeys)
          => last'.inp.data = MISSING]_vars

\* C4 (amended): an absolute path is never bound and never written, and a
\* write leaves the parameter's value; the dataset handler never loads an
\* absolute path, the ascii handler loads it exactly when the file exists.
C4_AbsoluteLoadedOnlyByAscii ==
  [][/\ AbsoluteLeftAlone
     /\ (last'.op = "handler_read" /\ last'.key \in AbsKeys)
          => (last'.inp.data # MISSING
                <=> (last'.handler = "ascii" /\ absfs[last'.key] # NoData))
     /\ (last'.op = "handler_read" /\ last'.inp.data # MISSING)
          => last'.inp.data = content(fs, absfs, last'.dir, last'.key)]_vars

\* The ascii handler has read an existing file at an absolute path.
C4_Witness ==
  /\ last.op = "handler_read"
  /\ last.handler = "ascii"
  /\ last.key \in AbsKeys
  /\ last.inp.data # MISSING

\* C5: a configuration that was constructed or read without error has a
\* namelists_subdir and relative file-valued parameters that stay inside
\* its root once joined to it and normalised, whatever the working
\* directory is; and InvalidPath is raised only for one that leaves it.
C5_EscapeIsInvalidPath ==
  LET root == <<"srv", "exp">>
      inside(p) == is_relative_to(resolve(p, root), root)
      o == objs[last.res]
  IN (last.op \in {"construct", "read"} /\ last.err = "ok")
       => /\ inside(Path(o.namelists_subdir))
          /\ \A v \in input_files(o.namelists.vals, TRUE) : inside(Path(v))

\* C6: a write with overwrite=false fails with FileExistsError exactly when
\* the destination exists and holds a file, whatever the file is.
C6_NonEmptyIsExistsError ==
  (last.op = "write" /\ ~last.overwrite)
    => (last.err = "FileExistsError" <=> ~last.fresh)

C8_DetachReturnsEqual ==
  /\ last.op = "detach"
       => /\ last.err = "ok"
          /\ is_detached(objs[last.res])
          /\ ConfigEq(objs[last.res], objs[last.obj])
  /\ last.op = "nml_detach"
       => /\ last.err = "ok"
          /\ nml_is_detached(last.ret)
          /\ last.ret.vals = objs[last.obj].namelists.vals
  /\ last.op = "input_detach"
       => /\ last.inp.path = <<>>
          /\ last.inp.data = objs[last.obj].inputs[last.key].data

\* C9: update(patch) on a detached object patches it in memory, writes no
\* file and raises nothing; update() on a detached object changes nothing.
C9_DetachedUpdate ==
  [][/\ (last'.op = "update_with" /\ is_detached(objs[last'.obj]))
          => /\ last'.err = "ok"
             /\ fs' = fs
             /\ objs'[last'.obj].namelists.vals =
                  patch_(objs[last'.obj].namelists.vals, last'.patch)
     /\ (last'.op = "nml_update"
         /\ nml_is_detached(objs[last'.obj].namelists))
          => /\ last'.err = "ok"
             /\ fs' = fs
             /\ objs'[last'.obj].namelists.vals =
                  patch_(objs[last'.obj].namelists.vals, last'.patch)
     /\ (last'.op = "update" /\ is_detached(objs[last'.obj]))
          => (last'.err = "ok" /\ fs' = fs /\ objs' = objs)]_vars

\* C10: update(patch) on an attached object patches it in memory and
\* rewrites the namelist files that the patch names, and no other file.
C10_RewritesOnlyPatched ==
  [][(/\ last'.op \in {"update_with", "nml_update"}
      /\ last'.patch # <<>>
      /\ ~nml_is_detached(objs[last'.obj].namelists))
     => LET nml == objs[last'.obj].namelists
        IN /\ last'.err = "ok"
           /\ objs'[last'.obj].namelists.vals = patch_(nml.vals, last'.patch)
           /\ last'.written =
                {<<nml.path[1], nml.path[2], n>> : n \in DOMAIN last'.patch}]_vars

C12_WriteOnce ==
  [][last'.op \in {"read_", "load"}
     => LET b == objs[last'.obj].inputs[last'.key]
            after == objs'[last'.obj].inputs[last'.key]
            found == fs[last'.dir].exists
                       /\ fs[last'.dir].data[last'.key] # NoData
        IN /\ b.data # NoData => (last'.err # "ok" /\ after.data = b.data)
           /\ (b.data = NoData /\ ~found)
                => (last'.err = "FileNotFoundError" /\ after.data = NoData)]_vars

\* C13: an ascii binding read from a file with a comment line and N rows of
\* M columns, written and read back any number of times, keeps its shape,
\* its values within the precision written, and its comment.
C13_AsciiRoundTrip ==
  (aux # NoAux /\ aux.phase = "mem" /\ aux.trips > 0)
    => /\ aux.binding.data.shape = aux.orig.data.shape
       /\ aux.binding.comment = aux.orig.comment
       /\ Len(aux.binding.data.flat) = Len(aux.orig.data.flat)
       /\ \A i \in 1..Len(aux.orig.data.flat) :
            LET diff == aux.binding.data.flat[i] - aux.orig.data.flat[i]
            IN -5 <= diff /\ diff <= 5

\* C14: two configurations are equal iff their namelists, their
\* namelists_subdir and the contents of their bindings (values and
\* comment) are equal; the path takes no part.
C14_EqualIffSameContent ==
  (aux # NoAux /\ aux.done)
    => (aux.eq <=>
          /\ aux.x.namelists.vals = aux.y.namelists.vals
          /\ aux.x.namelists_subdir = aux.y.namelists_subdir
          /\ DOMAIN aux.x.inputs = DOMAIN aux.y.inputs
          /\ \A k \in DOMAIN aux.x.inputs :
               /\ aux.x.inputs[k].data = aux.y.inputs[k].data
               /\ aux.x.inputs[k].comment = aux.y.inputs[k].comment)

\* C15: a parameter is treated as file-valued iff its value is a string
\* ending in a data-file extension, whatever its name: by the index, and
\* by make_paths_absolute, which makes absolute the existing relative
\* paths of file-valued parameters that are not skipped.
C15_ExtensionDecides ==
  LET ext(v) == isinstance_str(v) /\ suffix(v) \in valid_extensions
  IN /\ (aux # NoAux /\ aux.op = "index")
          => aux.file_parameters = {k \in ParamKeySet : ext(aux.config[k])}
     /\ (aux # NoAux /\ aux.op = "make_paths_absolute" /\ aux.err = "ok")
          => \A k \in ParamKeySet :
               /\ aux.result[k] # aux.config[k] => ext(aux.config[k])
               /\ (/\ ext(aux.config[k])
                   /\ aux.config[k] \in ExistingPaths
                   /\ ~is_absolute(Path(aux.config[k]))
                   /\ aux.config[k] \notin aux.skip_paths)
                    => aux.result[k] = str_resolve(aux.config[k])

C17_ErrorCarriesStderr ==
  (aux # NoAux /\ aux.op = "run" /\ aux.pc = "done" /\ aux.returncode # 0)
    => /\ aux.err = "JulesRuntimeError"
       /\ aux.msg = aux.stderr

\* C18: the key set of a FrozenDict is the one it was constructed with,
\* whatever mutating operations were applied: an assignment to an existing
\* key replaces its value, an assignment to an unknown key raises and
\* leaves the mapping as it was.
C18_KeySetFrozen ==
  (aux # NoAux /\ aux.op = "frozen")
    => /\ DOMAIN aux.d = aux.keys0
       /\ (aux.method = "__setitem__" /\ aux.key \in DOMAIN aux.prev)
            => aux.err = "ok" /\ aux.d = Item(aux.prev, aux.key, aux.value)
       /\ (aux.method = "__setitem__" /\ aux.key \notin DOMAIN aux.prev)
            => aux.err = "TypeError" /\ aux.d = aux.prev

\* C19: make_paths_absolute returns a config in which every parameter that
\* passes the name filter, whose value is an existing path relative to the
\* working directory and is not in skip_paths, holds the absolute path,
\* also when several such parameters are in one namelist group.
C19_EveryQualifyingParameter ==
  LET qualifies(k) ==
        /\ contains_file(k[2])
        /\ ~contains_profile(k[2])
        /\ k[2] \notin {"use_file", "nfiles", "file_period"}
        /\ aux.input[k] \in ExistingPaths
        /\ ~is_absolute(Path(aux.input[k]))
        /\ aux.input[k] \notin aux.skip_paths
  IN (aux # NoAux /\ aux.op = "make_paths_absolute" /\ aux.err = "ok")
       => \A k \in ParamKeySet :
            qualifies(k) => aux.result[k] = str_resolve(aux.input[k])

\* C20: make_paths_absolute works on a deep copy: the config given to it
\* has after the call the values it had before, and a parameter whose
\* resolved value is in skip_paths has in the returned config the relative
\* value it had.
C20_CopyAndSkip ==
  (aux # NoAux /\ aux.op = "make_paths_absolute")
    => /\ aux.config = aux.input
       /\ aux.err = "ok"
            => \A k \in ParamKeySet :
                 str_resolve(aux.input[k])
                     \in {str_resolve(q) : q \in aux.skip_paths}
                   => aux.result[k] = aux.input[k]

\* A call that made one parameter of group g1 absolute and left the other,
\* whose value is in skip_paths, relative.
C20_Witness ==
  /\ aux # NoAux /\ aux.op = "make_paths_absolute" /\ aux.err = "ok"
  /\ aux.skip_paths = {"inputs/a.dat"}
  /\ aux.input[<<"g1", "file">>] = "inputs/a.dat"
  /\ aux.result[<<"g1", "file">>] = "inputs/a.dat"
  /\ aux.input[<<"g1", "frac_file">>] = "data"
  /\ aux.result[<<"g1", "frac_file">>] = "/wd/data"
  /\ aux.config = aux.input

\* C21: load_input_data with exclude_abspath=True loads data for relative
\* paths of the namelists only: no binding whose path is absolute is
\* loaded.
C21_AbsoluteNotLoaded ==
  (aux # NoAux /\ aux.op = "experiment" /\ aux.exclude_abspath)
    => \A k \in DOMAIN aux.data :
         is_absolute(Path(k)) => aux.data[k] = None

\* C22: write serializes all namelist files before it writes any data
\* binding and does not roll back: when the write of a binding fails, the
\* error is raised and the namelist files (and whatever was written) are
\* in the destination directory; a data file of the destination changes
\* only in a write that has written every namelist file.
C22_NamelistsFirstNoRollback ==
  [][(last'.op = "write" /\ nops' = nops + 1)
       => LET o == objs[last'.obj]
              d == last'.dir
              all == {<<d, o.namelists_subdir, n>> : n \in Names}
          IN /\ last'.err \in {"TypeError", "FileExistsError"}
                  => /\ last'.written = all
                     /\ \A n \in Names :
                          fs'[d].nml[o.namelists_subdir][n]
                            = o.namelists.vals[n]
                     /\ objs' = objs
             /\ fs'[d].data # fs[d].data => last'.written = all
             /\ \A w \in last'.written : fs'[w[1]].nml[w[2]][w[3]] # NoFile
    ]_vars

\* A write into an empty directory failed at a binding, and the namelist
\* files it wrote are there.
C22_Witness ==
  /\ last.op = "write" /\ last.err = "TypeError" /\ last.fresh
  /\ \A n \in Names :
       fs[last.dir].nml[objs[last.obj].namelists_subdir][n] # NoFile

\* C23: write-through. After update(new_values) has returned on an
\* attached object the files under its backing path encode the object's
\* in-memory state, and update() with no new values on an attached object
\* rewrites the files from the in-memory state: it returns, and the files
\* encode the state.
C23_WriteThrough ==
  LET o == objs[last.obj]
      nml_encoded(nml) ==
        \A n \in Names : fs[nml.path[1]].nml[nml.path[2]][n] = nml.vals[n]
      input_encoded(k) ==
        fs[o.inputs[k].path[1]].data[k] = o.inputs[k].data
      config_encoded ==
        /\ \A n \in Names :
             fs[o.path].nml[o.namelists_subdir][n] = o.namelists.vals[n]
        /\ \A k \in DOMAIN o.inputs : fs[o.path].data[k] = o.inputs[k].data
  IN /\ (last.op = "update" /\ ~is_detached(o))
          => last.err = "ok" /\ config_encoded
     /\ (last.op = "update_with" /\ ~is_detached(o) /\ last.err = "ok")
          => config_encoded
     /\ (last.op = "nml_update" /\ ~nml_is_detached(o.namelists))
          => /\ DOMAIN last.patch = {} => last.err = "ok"
             /\ last.err = "ok" => nml_encoded(o.namelists)
     /\ (last.op = "input_update" /\ o.inputs[last.key].path # <<>>
            /\ last.err = "ok")
          => input_encoded(last.key)
     /\ (last.op = "input_update_none" /\ o.inputs[last.key].path # <<>>)
          => last.err = "ok" /\ input_encoded(last.key)

\* C24: a write with overwrite false never changes the content of a file
\* that existed before the call, be it a namelist, an ascii or a dataset
\* file: it fails, or it leaves the file as it was.
C24_OverwriteFalseKeepsFiles ==
  [][(/\ last'.op \in {"write", "handler_write"}
      /\ nops' = nops + 1
      /\ ~last'.overwrite)
       => /\ \A d \in Dirs, k \in Keys :
               fs[d].data[k] # NoData => fs'[d].data[k] = fs[d].data[k]
          /\ \A k \in AbsKeys :
               absfs[k] # NoData => absfs'[k] = absfs[k]
          /\ \A d \in Dirs, sub \in Subdirs, n \in Names :
               fs[d].nml[sub][n] # NoFile
                 => fs'[d].nml[sub][n] = fs[d].nml[sub][n]
    ]_vars

\* C25: write(dest) does not change the receiver: its lifecycle state, its
\* namelists and its bindings are after the call what they were before,
\* and when dest is not the receiver's backing directory no file under
\* the backing directory is changed.
C25_WriteLeavesReceiver ==
  [][(last'.op = "write" /\ nops' = nops + 1)
       => LET s == last'.obj
          IN /\ last'.res # s => objs'[s] = objs[s]
             /\ last'.err # "ok" => objs'[s] = objs[s]
             /\ (~is_detached(objs[s]) /\ last'.dir # objs[s].path)
                  => fs'[objs[s].path] = fs[objs[s].path]
    ]_vars

\* An attached configuration was written to another directory: files were
\* written there, and the receiver is still attached to its own.
C25_Witness ==
  /\ last.op = "write" /\ last.written # {}
  /\ last.res # last.obj
  /\ objs[last.obj].alive /\ ~is_detached(objs[last.obj])
  /\ objs[last.obj].path # last.dir

\* C26: the configuration returned by write(dest, overwrite=True) has the
\* namelists_subdir of the receiver, also when dest held a complete set of
\* namelist files in another subdirectory before the call. (Stated for a
\* receiver without bindings, whose write does not fail at a binding.)
C26_SameSubdir ==
  [][(/\ last'.op = "write" /\ nops' = nops + 1
      /\ last'.overwrite
      /\ input_files(objs[last'.obj].namelists.vals, TRUE) = {}
      /\ DOMAIN objs[last'.obj].inputs = {})
       => /\ last'.err = "ok"
          /\ objs'[last'.res].namelists_subdir
               = objs[last'.obj].namelists_subdir
    ]_vars

C28_OneClassification ==
  \A s \in Slots :
    objs[s].alive
      => \A k \in DOMAIN objs[s].inputs :
           /\ ~is_absolute(expanduser(Path(k)))
           /\ is_relative_to(resolve(Path(k), cwd), cwd)

\* C29: on exit from a switch_dir block, by the end of the body or by an
\* exception, the working directory is the one that was current on entry,
\* for nested blocks too; constructing switch_dir on a path that is not
\* an existing directory raises and leaves the working directory.
C29_RestoresOnExit ==
  (aux # NoAux /\ aux.op = "switch")
    => /\ aux.exited.wd = aux.exited.entry
       /\ aux.err \in {"NotADirectoryError", "FileNotFoundError"}
            => aux.wd = aux.before

\* C30: an iteration over a JulesExperimentCollection yields one
\* experiment per path, in construction order and each path once, and
\* then stops, also when two iterations over the collection are
\* interleaved; the index never exceeds the number of paths.
C30_EachPathOnce ==
  (aux # NoAux /\ aux.op = "collection")
    => /\ aux.index <= Len(aux.paths)
       /\ \A l \in Loops :
            /\ Len(aux.loops[l].yielded) <= Len(aux.paths)
            /\ aux.loops[l].yielded
                 = SubSeq(aux.paths, 1, Len(aux.loops[l].yielded))
            /\ aux.loops[l].stopped => aux.loops[l].yielded = aux.paths

====
